---- MODULE Spec2Model ----
(***************************************************************************)
(* Timezone-aware datetime column (pandas/core/arrays/datetimetz.py) and   *)
(* the datetime-like index adapter (pandas/core/indexes/datetimelike.py).  *)
(*                                                                         *)
(* A column is a record                                                    *)
(*     [i8 |-> buffer of physical integers, dtype |-> dtype, freq |-> f]   *)
(* and an adapter has, in addition, the cache of its cache_readonly        *)
(* properties.                                                             *)
(* Positions are 0-based as in the source; At(s, i) reads position i.      *)
(* Every operation is a call: it is taken from the idle state (res.op =    *)
(* "none"), leaves its arguments and its outcome in res, and Return takes  *)
(* the program back to the idle state.                                     *)
(***************************************************************************)
EXTENDS Integers, Sequences, FiniteSets, TLC

VARIABLES self, res

vars == <<self, res>>

(***************************************************************************)
(* Bounds of the model.                                                    *)
(***************************************************************************)
\* longest buffer drawn for a receiver
MaxLen == 3
\* int64 scaled down to Width bits: the sentinel is the least integer
Width == 3
\* longest index vector drawn for take
MaxIdx == 3

(***************************************************************************)
(* Physical integers.                                                      *)
(***************************************************************************)
RECURSIVE Pow2(_)
Pow2(n) == IF n = 0 THEN 1 ELSE 2 * Pow2(n - 1)

\* pandas._libs.iNaT: the least integer of the width
iNaT == 0 - Pow2(Width - 1)

\* np.iinfo('int64').max
i8max == Pow2(Width - 1) - 1

\* freq is None
FreqNone == 0

\* the values buffers are drawn from: the sentinel, a negative, zero, a
\* positive and the greatest integer
Values == {iNaT, -1, 0, 1, i8max}

\* the values the receivers of positional operations are drawn from
TakeValues == {iNaT, 1}

SeqsUpTo(S, n) == UNION {[1..k -> S] : k \in 0..n}

At(s, i) == s[i + 1]

Positions(s) == 0..(Len(s) - 1)

(***************************************************************************)
(* Dtypes.  A timezone is an identity; StrOfTz is its str(), which two     *)
(* different timezone objects can share (pytz UTC and datetime.timezone    *)
(* UTC both print "UTC").                                                  *)
(***************************************************************************)
TZ == {"pytz.UTC", "timezone.utc", "US/Central"}

StrOfTz(tz) == IF tz \in {"pytz.UTC", "timezone.utc"} THEN "UTC" ELSE tz

DatetimeTZDtype(unit, tz) == [kind |-> "datetime64", unit |-> unit, tz |-> tz, pfreq |-> FreqNone]

PeriodDtype(f) == [kind |-> "period", unit |-> "period", tz |-> "None", pfreq |-> f]

\* str(dtype): "datetime64[ns, <str(tz)>]" or "period[<freq>]"
StrOfDtype(d) ==
    IF d.kind = "period" THEN <<"period", ToString(d.pfreq)>>
    ELSE <<"datetime64", d.unit, StrOfTz(d.tz)>>

is_period_dtype(x) == x.dtype.kind = "period"

(***************************************************************************)
(* Scalars and outcomes.                                                   *)
(***************************************************************************)
NaT == [kind |-> "NaT"]

\* _box_func: the sentinel boxes to NaT, anything else to a Timestamp
\* carrying the dtype's timezone
box_func(x, v) ==
    IF v = iNaT THEN NaT
    ELSE [kind |-> "Timestamp", value |-> v, tz |-> x.dtype.tz]

Raise(exc) == [kind |-> "raise", exc |-> exc]

IntResult(n) == [kind |-> "int", value |-> n]

NoRes == [op |-> "none"]

Idle == res.op = "none"

(***************************************************************************)
(* Null detection.                                                         *)
(***************************************************************************)
isnan(i8) == [k \in 1..Len(i8) |-> i8[k] = iNaT]

hasnans(i8) == \E k \in 1..Len(i8) : i8[k] = iNaT

\* the _cache of a new instance: nothing stored
EmptyCache == [isnan |-> {}, hasnans |-> {}]

\* self._isnan through cache_readonly: the stored mask if there is one
cached_isnan(x) ==
    IF x.cache.isnan # {} THEN CHOOSE m \in x.cache.isnan : TRUE ELSE isnan(x.i8)

\* self.hasnans through cache_readonly: the stored value if there is one,
\* else self._isnan.any()
cached_hasnans(x) ==
    IF x.cache.hasnans # {} THEN CHOOSE b \in x.cache.hasnans : TRUE
    ELSE \E k \in 1..Len(cached_isnan(x)) : cached_isnan(x)[k]

\* the instance after self._isnan was read
read_isnan(x) == [x EXCEPT !.cache.isnan = {cached_isnan(x)}]

\* the instance after self.hasnans was read
read_hasnans(x) ==
    IF x.cache.hasnans # {} THEN x
    ELSE [x EXCEPT !.cache = [isnan |-> {cached_isnan(x)}, hasnans |-> {cached_hasnans(x)}]]

\* the instance after "if self.hasnans: ... self._isnan ..."
read_nans(x) ==
    IF cached_hasnans(x) THEN read_isnan(read_hasnans(x)) ELSE read_hasnans(x)

\* values[mask]: the elements at the positions where mask is True
RECURSIVE BoolIndex(_, _)
BoolIndex(s, mask) ==
    IF s = <<>> THEN <<>>
    ELSE (IF Head(mask) THEN <<Head(s)>> ELSE <<>>) \o BoolIndex(Tail(s), Tail(mask))

\* ~mask
Invert(mask) == [k \in 1..Len(mask) |-> ~mask[k]]

(***************************************************************************)
(* numpy reductions over an integer buffer.                                *)
(***************************************************************************)
SeqMin(s) == CHOOSE v \in {s[k] : k \in 1..Len(s)} : \A j \in 1..Len(s) : v <= s[j]

SeqMax(s) == CHOOSE v \in {s[k] : k \in 1..Len(s)} : \A j \in 1..Len(s) : v >= s[j]

\* ndarray.argmin: the first position of the least value
np_argmin(s) == (CHOOSE k \in 1..Len(s) : s[k] = SeqMin(s) /\ \A j \in 1..(k - 1) : s[j] # s[k]) - 1

\* ndarray.argmax: the first position of the greatest value
np_argmax(s) == (CHOOSE k \in 1..Len(s) : s[k] = SeqMax(s) /\ \A j \in 1..(k - 1) : s[j] # s[k]) - 1

\* Index.is_monotonic: non-decreasing physical integers.  The datetime
\* engine (timelike) additionally answers False whenever a sentinel is
\* present; the integer engine does not.  Both are modelled.
is_monotonic(i8, timelike) ==
    /\ \A k \in 1..(Len(i8) - 1) : i8[k] <= i8[k + 1]
    /\ timelike => ~hasnans(i8)

(***************************************************************************)
(* min / max / argmin / argmax                                             *)
(***************************************************************************)
\* the general path of min: mask out the sentinels, then reduce; the
\* ValueError of reducing an empty buffer is caught and NaT returned
min_general(x) ==
    LET i8 == x.i8
        kept == IF cached_hasnans(x) THEN BoolIndex(i8, Invert(cached_isnan(x))) ELSE i8
    IN IF Len(kept) = 0 THEN NaT ELSE box_func(x, SeqMin(kept))

\* min without the sentinel test on the first element
min_unguarded(x, timelike) ==
    LET i8 == x.i8
    IN IF Len(i8) > 0 /\ is_monotonic(i8, timelike)
       THEN box_func(x, At(i8, 0))
       ELSE min_general(x)

\* DatetimeIndexOpsMixin.min; timelike is the engine behind is_monotonic
min(x, timelike) ==
    LET i8 == x.i8
    IN IF Len(i8) > 0 /\ is_monotonic(i8, timelike) /\ At(i8, 0) # iNaT
       THEN box_func(x, At(i8, 0))
       ELSE min_general(x)

\* the general path of max
max_general(x) ==
    LET i8 == x.i8
        kept == IF cached_hasnans(x) THEN BoolIndex(i8, Invert(cached_isnan(x))) ELSE i8
    IN IF Len(kept) = 0 THEN NaT ELSE box_func(x, SeqMax(kept))

\* DatetimeIndexOpsMixin.max
max(x, timelike) ==
    LET i8 == x.i8
    IN IF Len(i8) > 0 /\ is_monotonic(i8, timelike) /\ At(i8, Len(i8) - 1) # iNaT
       THEN box_func(x, At(i8, Len(i8) - 1))
       ELSE max_general(x)

\* the instance after min or max: hasnans is read unless the quick check
\* returned
min_reads(x, timelike) ==
    IF Len(x.i8) > 0 /\ is_monotonic(x.i8, timelike) /\ At(x.i8, 0) # iNaT
    THEN x ELSE read_nans(x)

max_reads(x, timelike) ==
    IF Len(x.i8) > 0 /\ is_monotonic(x.i8, timelike) /\ At(x.i8, Len(x.i8) - 1) # iNaT
    THEN x ELSE read_nans(x)

\* i8 = i8.copy(); i8[mask] = v
Masked(i8, mask, v) == [k \in 1..Len(i8) |-> IF mask[k] THEN v ELSE i8[k]]

\* argmin that masks self.asi8 itself instead of a copy: the sentinels of
\* the receiver's buffer are overwritten
argmin_masks_in_place(x) ==
    IF cached_hasnans(x) /\ \E k \in 1..Len(x.i8) : ~cached_isnan(x)[k]
    THEN [read_nans(x) EXCEPT !.i8 = Masked(x.i8, cached_isnan(x), i8max)]
    ELSE read_nans(x)

\* the instance after argmin: hasnans and the mask are read, and the mask
\* is applied to a copy (i8 = i8.copy()), so the buffer stays as it was
argmin_reads(x) == read_nans(x)

\* the instance after argmax
argmax_reads(x) == read_nans(x)

\* argmin without the all-missing test
argmin_no_all_check(x) ==
    LET i8 == x.i8
    IN IF cached_hasnans(x) THEN IntResult(np_argmin(Masked(i8, cached_isnan(x), i8max)))
       ELSE IF Len(i8) = 0 THEN Raise("ValueError")
            ELSE IntResult(np_argmin(i8))

\* DatetimeIndexOpsMixin.argmin
argmin(x) ==
    LET i8 == x.i8
    IN IF cached_hasnans(x)
       THEN IF \A k \in 1..Len(i8) : cached_isnan(x)[k]
            THEN IntResult(-1)
            ELSE IntResult(np_argmin(Masked(i8, cached_isnan(x), i8max)))
       ELSE IF Len(i8) = 0 THEN Raise("ValueError")
            ELSE IntResult(np_argmin(i8))

\* DatetimeIndexOpsMixin.argmax
argmax(x) ==
    LET i8 == x.i8
    IN IF cached_hasnans(x)
       THEN IF \A k \in 1..Len(i8) : cached_isnan(x)[k]
            THEN IntResult(-1)
            ELSE IntResult(np_argmax(Masked(i8, cached_isnan(x), 0)))
       ELSE IF Len(i8) = 0 THEN Raise("ValueError")
            ELSE IntResult(np_argmax(i8))

(***************************************************************************)
(* Sorting kernels.                                                        *)
(***************************************************************************)
\* the key a sort kernel orders by: physical integers put the sentinel
\* (the least integer) first; a datetime64 kernel that knows NaT puts it
\* last (natLast).  Which one np.sort uses on _ndarray_values depends on
\* the numpy build, so both are modelled.
SortKey(v, natLast) == IF natLast /\ v = iNaT THEN i8max + 1 ELSE v

RECURSIVE Insert(_, _, _)
Insert(s, v, natLast) ==
    IF s = <<>> THEN <<v>>
    ELSE IF SortKey(v, natLast) < SortKey(Head(s), natLast) THEN <<v>> \o s
    ELSE <<Head(s)>> \o Insert(Tail(s), v, natLast)

RECURSIVE np_sort(_, _)
np_sort(s, natLast) ==
    IF s = <<>> THEN <<>>
    ELSE Insert(np_sort(Tail(s), natLast), Head(s), natLast)

Reverse(s) == [k \in 1..Len(s) |-> s[Len(s) + 1 - k]]

\* the permutations of the positions of s, as index vectors
Permutations0(n) == {p \in [1..n -> 0..(n - 1)] : \A a, b \in 1..n : p[a] = p[b] => a = b}

\* Index.argsort: asi8.argsort(), any index vector that orders the
\* physical integers (the default kind is not stable)
Argsorts(i8) ==
    {p \in Permutations0(Len(i8)) :
        \A k \in 1..(Len(i8) - 1) : At(i8, p[k]) <= At(i8, p[k + 1])}

(***************************************************************************)
(* Slices.  stop and step may be None (hasStop, hasStep false).            *)
(***************************************************************************)
Slice(start, stop, hasStop, step, hasStep) ==
    [kind |-> "slice", start |-> start, stop |-> stop, hasStop |-> hasStop,
     step |-> step, hasStep |-> hasStep]

NotASlice == [kind |-> "indices"]

CeilDiv(a, b) == IF a <= 0 THEN 0 ELSE (a + b - 1) \div b

\* the positions a slice with an in-range start selects from n elements
SlicePositions(sl, n) ==
    LET step == IF sl.hasStep THEN sl.step ELSE 1
        cnt == IF step > 0
               THEN CeilDiv((IF sl.stop < n THEN sl.stop ELSE n) - sl.start, step)
               ELSE CeilDiv(sl.start - (IF sl.hasStop THEN sl.stop ELSE -1), 0 - step)
    IN [j \in 1..cnt |-> sl.start + (j - 1) * step]

\* lib.maybe_indices_to_slice(indices, max_len)
maybe_indices_to_slice(indices, max_len) ==
    LET n == Len(indices)
        vstart == indices[1]
        vlast == indices[n]
        k == indices[2] - indices[1]
    IN IF n = 0 THEN Slice(0, 0, TRUE, 1, FALSE)
       ELSE IF vstart < 0 \/ max_len <= vstart THEN NotASlice
       ELSE IF n = 1 THEN Slice(vstart, vstart + 1, TRUE, 1, FALSE)
       ELSE IF vlast < 0 \/ max_len <= vlast THEN NotASlice
       ELSE IF k = 0 THEN NotASlice
       ELSE IF \E i \in 3..n : indices[i] - indices[i - 1] # k THEN NotASlice
       ELSE IF k > 0 THEN Slice(vstart, vlast + 1, TRUE, k, TRUE)
       ELSE IF vlast = 0 THEN Slice(vstart, 0, FALSE, k, TRUE)
       ELSE Slice(vstart, vlast - 1, TRUE, k, TRUE)

(***************************************************************************)
(* Gather.                                                                 *)
(***************************************************************************)
Ok(values) == [kind |-> "ok", values |-> values]

\* the caller's fill_value argument: None, or a physical value
FillNone == [given |-> FALSE, value |-> iNaT]

Fill(v) == [given |-> TRUE, value |-> v]

\* the gather-with-fill kernel (pandas.core.algorithms.take): with
\* allow_fill, -1 yields na and any other index outside [0, n) fails;
\* without it, negative indices count from the end
algos_take(values, indices, allow_fill, na) ==
    LET n == Len(values)
    IN IF allow_fill
       THEN IF \E k \in 1..Len(indices) : indices[k] < -1 \/ indices[k] >= n
            THEN Raise("IndexError")
            ELSE Ok([k \in 1..Len(indices) |->
                        IF indices[k] = -1 THEN na ELSE At(values, indices[k])])
       ELSE IF \E k \in 1..Len(indices) : indices[k] < 0 - n \/ indices[k] >= n
            THEN Raise("IndexError")
            ELSE Ok([k \in 1..Len(indices) |->
                        At(values, IF indices[k] < 0 THEN indices[k] + n ELSE indices[k])])

\* Index._assert_take_fillable(values, indices, allow_fill, fill_value, na_value)
assert_take_fillable(values, indices, allow_fill, fill_value, na_value) ==
    algos_take(values, indices, allow_fill, na_value)

(***************************************************************************)
(* Columns: DatetimeTZArray.                                               *)
(***************************************************************************)
\* DatetimeTZArray.__init__(values, dtype): freq starts as None
DatetimeTZArray(values, dtype) == [i8 |-> values, dtype |-> dtype, freq |-> FreqNone]

\* dtype.na_value, as stored in the buffer
na_value == iNaT

\* take that fills with the caller's fill_value
array_take_callers_fill(x, indices, allow_fill, fill_value) ==
    LET result == algos_take(x.i8, indices, allow_fill,
                             IF fill_value.given THEN fill_value.value ELSE na_value)
    IN IF result.kind = "raise" THEN result
       ELSE [kind |-> "column", col |-> DatetimeTZArray(result.values, x.dtype)]

\* take that fills whatever allow_fill says
array_take_always_fill(x, indices, allow_fill, fill_value) ==
    LET result == algos_take(x.i8, indices, TRUE, na_value)
    IN IF result.kind = "raise" THEN result
       ELSE [kind |-> "column", col |-> DatetimeTZArray(result.values, x.dtype)]

\* DatetimeTZArray.take(indices, allow_fill, fill_value)
array_take(x, indices, allow_fill, fill_value) ==
    LET result == algos_take(x.i8, indices, allow_fill, na_value)
    IN IF result.kind = "raise" THEN result
       ELSE [kind |-> "column", col |-> DatetimeTZArray(result.values, x.dtype)]

(***************************************************************************)
(* The adapter.                                                            *)
(***************************************************************************)
\* name is None
NoName == "<None>"

\* a new adapter instance: no name, nothing cached yet
Adapter(i8, dtype, freq) ==
    [i8 |-> i8, dtype |-> dtype, freq |-> freq, name |-> NoName, cache |-> EmptyCache]

\* the adapter with its name attribute set
Named(x, name) == [x EXCEPT !.name = name]

\* self._shallow_copy(values, freq=freq): same type, dtype and name, new
\* values
shallow_copy(x, values, freq) == Named(Adapter(values, x.dtype, freq), x.name)

\* self[slice]: the selected elements; a period adapter keeps its freq,
\* any other one has its freq scaled by the slice's step
getitem_slice(x, sl) ==
    LET pos == SlicePositions(sl, Len(x.i8))
        freq == IF is_period_dtype(x) THEN x.freq
                ELSE IF x.freq # FreqNone /\ sl.hasStep THEN sl.step * x.freq
                ELSE x.freq
    IN Named(Adapter([j \in 1..Len(pos) |-> At(x.i8, pos[j])], x.dtype, freq), x.name)

\* the gather path of take
take_gather(x, indices, allow_fill, fill_value) ==
    LET taken == assert_take_fillable(x.i8, indices, allow_fill, fill_value, iNaT)
        freq == IF is_period_dtype(x) THEN x.freq ELSE FreqNone
    IN IF taken.kind = "raise" THEN taken
       ELSE [kind |-> "index", idx |-> shallow_copy(x, taken.values, freq),
             path |-> "gather"]

\* take whose shortcut drops the step of the slice
take_ignores_step(x, indices, allow_fill, fill_value) ==
    LET maybe_slice == maybe_indices_to_slice(indices, Len(x.i8))
    IN IF maybe_slice.kind = "slice"
       THEN [kind |-> "index",
             idx |-> getitem_slice(x, [maybe_slice EXCEPT !.step = IF @ > 0 THEN 1 ELSE -1]),
             path |-> "slice"]
       ELSE take_gather(x, indices, allow_fill, fill_value)

\* DatetimeIndexOpsMixin.take(indices, allow_fill, fill_value)
take(x, indices, allow_fill, fill_value) ==
    LET maybe_slice == maybe_indices_to_slice(indices, Len(x.i8))
    IN IF maybe_slice.kind = "slice"
       THEN [kind |-> "index", idx |-> getitem_slice(x, maybe_slice), path |-> "slice"]
       ELSE take_gather(x, indices, allow_fill, fill_value)

\* Index._simple_new(values, **attribs): an adapter over values with the
\* attributes given
simple_new(values, name, dtype, freq) == Named(Adapter(values, dtype, freq), name)

(***************************************************************************)
(* sort_values                                                             *)
(***************************************************************************)
\* sort_values that returns the indexer as argsort gave it, also when the
\* sorted adapter was taken with the reversed one
sort_values_stale_indexer(x, return_indexer, ascending, natLast, argsorted) ==
    IF return_indexer
    THEN LET as == IF ~ascending THEN Reverse(argsorted) ELSE argsorted
             sorted_index == take(x, as, TRUE, FillNone)
         IN [kind |-> "pair", idx |-> sorted_index.idx, indexer |-> argsorted]
    ELSE [kind |-> "index",
          idx |-> simple_new(IF ~ascending THEN Reverse(np_sort(x.i8, natLast))
                             ELSE np_sort(x.i8, natLast),
                             x.name, x.dtype, x.freq)]

\* DatetimeIndexOpsMixin.sort_values(return_indexer, ascending); natLast
\* is the order of np.sort's kernel, argsorted the outcome of
\* self.argsort()
sort_values(x, return_indexer, ascending, natLast, argsorted) ==
    IF return_indexer
    THEN LET as == IF ~ascending THEN Reverse(argsorted) ELSE argsorted
             sorted_index == take(x, as, TRUE, FillNone)
         IN [kind |-> "pair", idx |-> sorted_index.idx, indexer |-> as]
    ELSE LET sorted_values == np_sort(x.i8, natLast)
             attr == x.freq
             freq == IF attr # FreqNone /\ ~is_period_dtype(x)
                     THEN IF attr > 0 /\ ~ascending THEN attr * (-1)
                          ELSE IF attr < 0 /\ ascending THEN attr * (-1)
                          ELSE attr
                     ELSE attr
             ordered == IF ~ascending THEN Reverse(sorted_values) ELSE sorted_values
         IN [kind |-> "index", idx |-> simple_new(ordered, x.name, x.dtype, freq)]

(***************************************************************************)
(* repeat                                                                  *)
(***************************************************************************)
RECURSIVE Times(_, _)
Times(v, n) == IF n = 0 THEN <<>> ELSE <<v>> \o Times(v, n - 1)

\* ndarray.repeat(counts): element k is written counts[k] times
RECURSIVE np_repeat(_, _)
np_repeat(s, counts) ==
    IF s = <<>> THEN <<>>
    ELSE Times(Head(s), Head(counts)) \o np_repeat(Tail(s), Tail(counts))

\* repeat that keeps the receiver's freq
repeat_keeps_freq(x, counts) ==
    [kind |-> "index", idx |-> shallow_copy(x, np_repeat(x.i8, counts), x.freq)]

\* DatetimeIndexOpsMixin.repeat(repeats)
repeat(x, counts) ==
    LET freq == IF is_period_dtype(x) THEN x.freq ELSE FreqNone
    IN [kind |-> "index", idx |-> shallow_copy(x, np_repeat(x.i8, counts), freq)]

(***************************************************************************)
(* Concatenation                                                           *)
(***************************************************************************)
\* np.concatenate: the buffers laid end to end
RECURSIVE np_concatenate(_)
np_concatenate(cols) ==
    IF cols = <<>> THEN <<>> ELSE Head(cols).i8 \o np_concatenate(Tail(cols))

\* concatenation without the dtype assertion
concat_same_type_unchecked(to_concat) ==
    IF to_concat = <<>> THEN Raise("IndexError")
    ELSE [kind |-> "column",
          col |-> DatetimeTZArray(np_concatenate(to_concat), to_concat[1].dtype)]

\* concatenation that lays the buffers out last input first
concat_same_type_reversed(to_concat) ==
    IF Cardinality({to_concat[k].dtype : k \in 1..Len(to_concat)}) # 1
    THEN Raise("AssertionError")
    ELSE [kind |-> "column",
          col |-> DatetimeTZArray(np_concatenate(Reverse(to_concat)), to_concat[1].dtype)]

\* DatetimeTZArray._concat_same_type(to_concat)
concat_same_type(to_concat) ==
    IF Cardinality({to_concat[k].dtype : k \in 1..Len(to_concat)}) # 1
    THEN Raise("AssertionError")
    ELSE [kind |-> "column",
          col |-> DatetimeTZArray(np_concatenate(to_concat), to_concat[1].dtype)]

\* DatetimeIndexOpsMixin._concat_same_dtype(to_concat, name)
concat_same_dtype(x, to_concat, name) ==
    IF Cardinality({StrOfDtype(to_concat[k].dtype) : k \in 1..Len(to_concat)}) # 1
    THEN Raise("ValueError")
    ELSE LET freq == IF ~is_period_dtype(x) THEN FreqNone ELSE x.freq
             new_data == concat_same_type(to_concat)
         IN IF new_data.kind = "raise" THEN new_data
            ELSE [kind |-> "index",
                  idx |-> simple_new(new_data.col.i8, name, new_data.col.dtype, freq)]

(***************************************************************************)
(* Inputs.                                                                 *)
(***************************************************************************)
Buffers == SeqsUpTo(Values, MaxLen)

\* the steps a freq is drawn from, of both signs
Freqs == {1, -2}

\* a datetime adapter may carry any freq or none; a period adapter's freq
\* is its dtype's
Flavours ==
    {<<DatetimeTZDtype("ns", tz), f>> : tz \in TZ, f \in Freqs \cup {FreqNone}}
    \cup {<<PeriodDtype(f), f>> : f \in {1, 2}}

OrderFlavours == {fl \in Flavours : fl[1].kind = "datetime64" => fl[1].tz = "US/Central"}

TakeFlavours == {fl \in OrderFlavours : fl[2] \in {FreqNone, -2, 1} /\ (fl[2] = 1 <=> fl[1].kind = "period")}

\* the columns a concatenation draws its other inputs from
OtherColumns ==
    {Adapter(b, fl[1], fl[2]) : b \in {<<>>, <<iNaT, 1>>}, fl \in Flavours}

ConcatLists(x) == SeqsUpTo({x} \cup OtherColumns, 2)

\* lists of DatetimeTZArray columns
ColumnLists(x) == {l \in ConcatLists(x) : \A k \in 1..Len(l) : ~is_period_dtype(l[k])}

\* index vectors for a receiver of n elements: every position, -1, and
\* one index out of range on either side
IndexVectors(n) == SeqsUpTo((-2)..n, MaxIdx)

FillValues == {FillNone, Fill(iNaT), Fill(0)}

RepeatCounts(n) == [1..n -> 0..2]

(***************************************************************************)
(* Actions.                                                                *)
(***************************************************************************)
Min ==
    /\ Idle
    /\ \E timelike \in BOOLEAN :
          /\ res' = [op |-> "min", timelike |-> timelike, out |-> min(self, timelike)]
          /\ self' = min_reads(self, timelike)

Max ==
    /\ Idle
    /\ \E timelike \in BOOLEAN :
          /\ res' = [op |-> "max", timelike |-> timelike, out |-> max(self, timelike)]
          /\ self' = max_reads(self, timelike)

Argmin ==
    /\ Idle
    /\ res' = [op |-> "argmin", out |-> argmin(self)]
    /\ self' = argmin_reads(self)

Argmax ==
    /\ Idle
    /\ res' = [op |-> "argmax", out |-> argmax(self)]
    /\ self' = argmax_reads(self)

SortValues ==
    /\ Idle
    /\ \E return_indexer, ascending, natLast \in BOOLEAN :
          \E argsorted \in Argsorts(self.i8) :
             res' = [op |-> "sort_values", return_indexer |-> return_indexer,
                     ascending |-> ascending,
                     out |-> sort_values(self, return_indexer, ascending, natLast, argsorted)]
    /\ UNCHANGED self

Take ==
    /\ Idle
    /\ \E indices \in IndexVectors(Len(self.i8)) :
          \E allow_fill \in BOOLEAN :
             \E fill_value \in FillValues :
                res' = [op |-> "take", indices |-> indices, allow_fill |-> allow_fill,
                        fill_value |-> fill_value,
                        out |-> take(self, indices, allow_fill, fill_value)]
    /\ UNCHANGED self

\* take on the adapter's column
ArrayTake ==
    /\ Idle
    /\ ~is_period_dtype(self)
    /\ \E indices \in IndexVectors(Len(self.i8)) :
          \E allow_fill \in BOOLEAN :
             \E fill_value \in FillValues :
                res' = [op |-> "array_take", indices |-> indices, allow_fill |-> allow_fill,
                        fill_value |-> fill_value,
                        out |-> array_take(self, indices, allow_fill, fill_value)]
    /\ UNCHANGED self

Repeat ==
    /\ Idle
    /\ \E counts \in RepeatCounts(Len(self.i8)) :
          res' = [op |-> "repeat", counts |-> counts, out |-> repeat(self, counts)]
    /\ UNCHANGED self

\* DatetimeTZArray._concat_same_type on a list of columns
ConcatSameType ==
    /\ Idle
    /\ \E to_concat \in ColumnLists(self) :
          res' = [op |-> "concat_same_type", to_concat |-> to_concat,
                  out |-> concat_same_type(to_concat)]
    /\ UNCHANGED self

ConcatSameDtype ==
    /\ Idle
    /\ \E to_concat \in ConcatLists(self) :
          \E name \in {self.name} :
             res' = [op |-> "concat_same_dtype", to_concat |-> to_concat, name |-> name,
                     out |-> concat_same_dtype(self, to_concat, name)]
    /\ UNCHANGED self

\* the caller takes the outcome; the program is idle again
Return ==
    /\ ~Idle
    /\ res' = NoRes
    /\ UNCHANGED self

(***************************************************************************)
(* Specifications.                                                         *)
(***************************************************************************)
\* ordering operations: min, max, argmin, argmax, sort_values
InitOrder ==
    /\ self \in {Adapter(b, fl[1], fl[2]) : b \in Buffers, fl \in OrderFlavours}
    /\ res = NoRes

NextOrder == Min \/ Max \/ Argmin \/ Argmax \/ SortValues \/ Return

SpecOrder == InitOrder /\ [][NextOrder]_vars

\* positional operations: take (adapter and column) and repeat
InitTake ==
    /\ self \in {Adapter(b, fl[1], fl[2]) : b \in SeqsUpTo(TakeValues, MaxLen), fl \in TakeFlavours}
    /\ res = NoRes

NextTake == Take \/ ArrayTake \/ Repeat \/ Return

SpecTake == InitTake /\ [][NextTake]_vars

\* concatenation, of columns and of adapters
InitConcat ==
    /\ self \in {Adapter(b, fl[1], fl[2]) : b \in SeqsUpTo(TakeValues, MaxLen), fl \in Flavours}
    /\ res = NoRes

NextConcat == ConcatSameType \/ ConcatSameDtype \/ Return

SpecConcat == InitConcat /\ [][NextConcat]_vars

\* the adapter operations that decide the freq of their result
InitFreq ==
    /\ self \in {Adapter(b, fl[1], fl[2]) : b \in SeqsUpTo(TakeValues, MaxLen), fl \in OrderFlavours}
    /\ res = NoRes

NextFreq == Take \/ Repeat \/ ConcatSameDtype \/ Return

SpecFreq == InitFreq /\ [][NextFreq]_vars

(***************************************************************************)
(* Properties.                                                             *)
(***************************************************************************)
NonMissing(i8) == {i8[k] : k \in 1..Len(i8)} \ {iNaT}

AllMissing(i8) == NonMissing(i8) = {}

Least(S) == CHOOSE v \in S : \A w \in S : v <= w

Greatest(S) == CHOOSE v \in S : \A w \in S : v >= w

Timestamp(v, tz) == [kind |-> "Timestamp", value |-> v, tz |-> tz]

\* C1 (as claimed): sort_values returns every missing element after all
\* non-missing elements, for both directions and on both paths.
C1_SortPutsMissingLast ==
    res.op = "sort_values" =>
        LET s == res.out.idx.i8
        IN \A a, b \in 1..Len(s) : (s[a] = iNaT /\ s[b] # iNaT) => b < a

\* C2 (as claimed): on a column with a non-missing element, argmax returns
\* a position holding a non-missing element equal to max(), and argmin a
\* position holding a non-missing element equal to min().
C2_ArgExtremeIsNonMissing ==
    (res.op \in {"argmin", "argmax"} /\ ~AllMissing(self.i8)) =>
        /\ res.out.kind = "int"
        /\ res.out.value \in Positions(self.i8)
        /\ At(self.i8, res.out.value) # iNaT
        /\ At(self.i8, res.out.value) =
              IF res.op = "argmin" THEN Least(NonMissing(self.i8))
              ELSE Greatest(NonMissing(self.i8))

\* C3 (as claimed): on a column whose elements are all missing, the empty
\* column included, min and max return NaT and argmin and argmax return -1.
C3_AllMissingNeverRaises ==
    AllMissing(self.i8) =>
        /\ res.op \in {"min", "max"} => res.out = NaT
        /\ res.op \in {"argmin", "argmax"} => res.out = IntResult(-1)

\* C3 (amended): on a non-empty column whose elements are all missing, min
\* and max return NaT and argmin and argmax return -1; on the empty column
\* min and max return NaT, and argmin and argmax raise ValueError.
C3_AllMissing ==
    AllMissing(self.i8) =>
        /\ res.op \in {"min", "max"} => res.out = NaT
        /\ res.op \in {"argmin", "argmax"} =>
              res.out = IF Len(self.i8) = 0 THEN Raise("ValueError") ELSE IntResult(-1)

C3_Witness ==
    /\ res.op = "argmax"
    /\ Len(self.i8) = 2
    /\ AllMissing(self.i8)
    /\ res.out = IntResult(-1)

\* C4: min returns the least and max the greatest non-missing instant, and
\* the value returned (fast path or not) is the one the general path
\* returns, wherever the sentinels are.
C4_MinMaxFastPath ==
    /\ res.op = "min" =>
          /\ res.out = min_general(self)
          /\ ~AllMissing(self.i8) =>
                res.out = Timestamp(Least(NonMissing(self.i8)), self.dtype.tz)
    /\ res.op = "max" =>
          /\ res.out = max_general(self)
          /\ ~AllMissing(self.i8) =>
                res.out = Timestamp(Greatest(NonMissing(self.i8)), self.dtype.tz)

\* the fast path of max is taken on a buffer that starts with a sentinel
C4_Witness ==
    /\ res.op = "max"
    /\ Len(self.i8) = 3
    /\ At(self.i8, 0) = iNaT
    /\ is_monotonic(self.i8, res.timelike)
    /\ res.out = Timestamp(At(self.i8, 2), self.dtype.tz)

TakeOps == {"take", "array_take"}

\* the column or adapter a take returned
Taken(out) == IF out.kind = "column" THEN out.col ELSE out.idx

\* C5: with allow_fill=True every index -1 yields a missing element,
\* whatever the column holds and whatever fill_value is passed, and any
\* other index outside [0, len) makes the call raise IndexError.
C5_TakeFill ==
    (res.op \in TakeOps /\ res.allow_fill) =>
        IF \A k \in 1..Len(res.indices) : res.indices[k] \in (-1)..(Len(self.i8) - 1)
        THEN /\ res.out.kind \in {"column", "index"}
             /\ Len(Taken(res.out).i8) = Len(res.indices)
             /\ \A k \in 1..Len(res.indices) :
                    res.indices[k] = -1 => Taken(res.out).i8[k] = iNaT
        ELSE res.out = Raise("IndexError")

C5_Witness ==
    /\ res.op = "array_take"
    /\ res.allow_fill
    /\ self.i8 = <<>>
    /\ res.indices = <<-1>>
    /\ res.fill_value = Fill(0)
    /\ res.out.kind = "column"
    /\ res.out.col.i8 = <<iNaT>>

\* C6: with allow_fill=False the result has len(indices) elements and the
\* receiver's dtype, and element k is the receiver's element at
\* indices[k], a negative index j in [-len, -1] denoting len + j.
C6_TakeWraparound ==
    (/\ res.op \in TakeOps
     /\ ~res.allow_fill
     /\ \A k \in 1..Len(res.indices) :
           res.indices[k] \in (0 - Len(self.i8))..(Len(self.i8) - 1)) =>
        /\ res.out.kind \in {"column", "index"}
        /\ Taken(res.out).dtype = self.dtype
        /\ Len(Taken(res.out).i8) = Len(res.indices)
        /\ \A k \in 1..Len(res.indices) :
              Taken(res.out).i8[k] =
                 At(self.i8, IF res.indices[k] < 0
                             THEN Len(self.i8) + res.indices[k]
                             ELSE res.indices[k])

C6_Witness ==
    /\ res.op = "array_take"
    /\ ~res.allow_fill
    /\ Len(self.i8) = 2
    /\ At(self.i8, 0) = iNaT
    /\ res.indices = <<-1, 0>>
    /\ res.out.kind = "column"
    /\ res.out.col.i8 = <<1, iNaT>>

\* what the gather path returns for the arguments of the last take
GatherOfLast == take_gather(self, res.indices, res.allow_fill, res.fill_value)

SliceShortcutTaken == res.op = "take" /\ res.out.kind = "index" /\ res.out.path = "slice"

ConcatOps == {"concat_same_type", "concat_same_dtype"}

RECURSIVE SumLens(_, _)
SumLens(cols, k) == IF k = 0 THEN 0 ELSE Len(cols[k].i8) + SumLens(cols, k - 1)

\* the column or adapter a concatenation returned
Joined(out) == IF out.kind = "column" THEN out.col ELSE out.idx

\* C9: when all inputs share one dtype the result has the summed length,
\* holds element j of input k at position len(input_0) + ... +
\* len(input_{k-1}) + j (missing elements included), and has the inputs'
\* dtype.
C9_ConcatLaysEndToEnd ==
    (/\ res.op \in ConcatOps
     /\ Len(res.to_concat) > 0
     /\ \A j, k \in 1..Len(res.to_concat) :
           res.to_concat[j].dtype = res.to_concat[k].dtype) =>
        /\ res.out.kind \in {"column", "index"}
        /\ Len(Joined(res.out).i8) = SumLens(res.to_concat, Len(res.to_concat))
        /\ Joined(res.out).dtype = res.to_concat[1].dtype
        /\ \A k \in 1..Len(res.to_concat) :
              \A j \in Positions(res.to_concat[k].i8) :
                 At(Joined(res.out).i8, SumLens(res.to_concat, k - 1) + j) =
                    At(res.to_concat[k].i8, j)

C9_Witness ==
    /\ res.op = "concat_same_type"
    /\ Len(res.to_concat) = 2
    /\ res.to_concat[1].i8 = <<1>>
    /\ res.to_concat[2].i8 = <<iNaT, 1>>
    /\ res.out.kind = "column"
    /\ res.out.col.i8 = <<1, iNaT, 1>>

\* C10: _concat_same_dtype, repeat and the gather path of take return a
\* result whose freq is None when the adapter is not period-typed,
\* whatever freq the inputs carry, and the receiver's freq when it is.
C10_FreqOfResults ==
    (/\ res.op \in {"concat_same_dtype", "repeat", "take"}
     /\ res.out.kind = "index"
     /\ res.op = "take" => res.out.path = "gather") =>
        res.out.idx.freq = IF is_period_dtype(self) THEN self.freq ELSE FreqNone

C10_Witness ==
    /\ res.op = "concat_same_dtype"
    /\ res.out.kind = "index"
    /\ ~is_period_dtype(self)
    /\ self.freq # FreqNone
    /\ \E k \in 1..Len(res.to_concat) : res.to_concat[k].freq # FreqNone
    /\ res.out.idx.freq = FreqNone

(***************************************************************************)
(* Column constructors and indexing (DatetimeTZArray).                     *)
(***************************************************************************)
\* DatetimeTZArray.__init__(values, dtype) called with a column as values:
\* _data is stored as given, so it holds that column and not a buffer
DatetimeTZArrayOf(data, dtype) == [data |-> data, dtype |-> dtype, freq |-> FreqNone]

\* DatetimeTZArray._from_factorized(values, original): original.take
\* returns a column, and that column is handed to the constructor
from_factorized(values, original) ==
    LET taken == array_take(original, values, FALSE, FillNone)
    IN IF taken.kind = "raise" THEN taken
       ELSE [kind |-> "column", col |-> DatetimeTZArrayOf(taken.col, original.dtype)]

\* columns a column operation is called on
Columns ==
    {DatetimeTZArray(b, DatetimeTZDtype("ns", tz)) :
        b \in SeqsUpTo(TakeValues, MaxLen), tz \in {"pytz.UTC", "US/Central"}}

FromFactorized ==
    /\ Idle
    /\ \E values \in IndexVectors(Len(self.i8)) :
          res' = [op |-> "from_factorized", values |-> values,
                  out |-> from_factorized(values, self)]
    /\ UNCHANGED self

\* column constructors and indexing
InitColumn ==
    /\ self \in Columns
    /\ res = NoRes

NextColumn == FromFactorized \/ Return

SpecColumn == InitColumn /\ [][NextColumn]_vars

\* the column stores a buffer of physical values
IsFlat(c) == "i8" \in DOMAIN c

\* C11 (as claimed): _from_factorized(codes, original), with every code a
\* position of original, returns a column that stores a flat buffer of
\* len(codes) physical values, has original's dtype, and holds at position
\* i original's element at position codes[i].
C11_FromFactorized ==
    (/\ res.op = "from_factorized"
     /\ \A k \in 1..Len(res.values) : res.values[k] \in Positions(self.i8)) =>
        /\ res.out.kind = "column"
        /\ res.out.col.dtype = self.dtype
        /\ IsFlat(res.out.col)
        /\ Len(res.out.col.i8) = Len(res.values)
        /\ \A k \in 1..Len(res.values) :
              res.out.col.i8[k] = At(self.i8, res.values[k])

(***************************************************************************)
(* equals                                                                  *)
(***************************************************************************)
\* is_dtype_equal: unit and timezone (or period freq) compare equal
is_dtype_equal(a, b) ==
    /\ a.kind = b.kind
    /\ a.unit = b.unit
    /\ a.tz = b.tz
    /\ a.pfreq = b.pfreq

\* np.array_equal: same length and equal element by element
array_equal(a, b) ==
    /\ Len(a) = Len(b)
    /\ \A k \in 1..Len(a) : a[k] = b[k]

BoolResult(b) == [kind |-> "bool", value |-> b]

\* the argument of equals: the receiver itself, another instance of the
\* receiver's type, an Index of another type (type(self)(other) either
\* raises or yields an instance), or an object that is no Index
SameObject == [kind |-> "same"]

OfSameType(idx) == [kind |-> "index", idx |-> idx]

OfOtherType(idx, converts) == [kind |-> "other_index", idx |-> idx, converts |-> converts]

NotAnIndex == [kind |-> "object"]

\* equals that skips the dtype comparison
equals_ignores_dtype(x, other) ==
    IF other.kind = "same" THEN BoolResult(TRUE)
    ELSE IF other.kind \notin {"index", "other_index"} THEN BoolResult(FALSE)
    ELSE IF other.kind = "other_index" /\ ~other.converts THEN BoolResult(FALSE)
    ELSE BoolResult(array_equal(x.i8, other.idx.i8))

\* DatetimeIndexOpsMixin.equals(other)
equals(x, other) ==
    IF other.kind = "same" THEN BoolResult(TRUE)
    ELSE IF other.kind \notin {"index", "other_index"} THEN BoolResult(FALSE)
    ELSE IF other.kind = "other_index" /\ ~other.converts THEN BoolResult(FALSE)
    ELSE IF ~is_dtype_equal(x.dtype, other.idx.dtype) THEN BoolResult(FALSE)
    ELSE IF is_period_dtype(x) /\ ~is_period_dtype(other.idx) THEN BoolResult(FALSE)
    ELSE IF is_period_dtype(x) /\ x.freq # other.idx.freq THEN BoolResult(FALSE)
    ELSE BoolResult(array_equal(x.i8, other.idx.i8))

\* the adapters equals is called with: over the receiver's buffer, over
\* its reverse and over two fixed buffers, of every flavour, and period
\* adapters whose freq was assigned another step
OtherAdapters(x) ==
    {Adapter(b, fl[1], fl[2]) : b \in {x.i8, Reverse(x.i8), <<>>, <<iNaT, 1>>}, fl \in Flavours}
    \cup {Adapter(x.i8, PeriodDtype(f), 3 - f) : f \in {1, 2}}

Others(x) ==
    {SameObject, NotAnIndex}
    \cup {OfSameType(o) : o \in OtherAdapters(x)}
    \cup {OfOtherType(o, cv) : o \in OtherAdapters(x), cv \in BOOLEAN}

Equals ==
    /\ Idle
    /\ \E other \in Others(self) :
          res' = [op |-> "equals", other |-> other, out |-> equals(self, other)]
    /\ UNCHANGED self

InitEquals ==
    /\ self \in {Adapter(b, fl[1], fl[2]) : b \in SeqsUpTo(TakeValues, MaxLen), fl \in Flavours}
    /\ res = NoRes

NextEquals == Equals \/ Return

SpecEquals == InitEquals /\ [][NextEquals]_vars

\* the adapter an argument of the receiver's own type denotes
Denoted(other) == IF other.kind = "same" THEN self ELSE other.idx

\* C12: on an argument of the receiver's type equals returns True exactly
\* when the dtypes are equal (unit and timezone), the freqs are equal if
\* the receiver is period-typed, and the buffers are equal element by
\* element; so it is False across timezones even for equal instants and
\* True for the receiver itself.  It is False for an object that is no
\* Index.
C12_Equals ==
    res.op = "equals" =>
        /\ res.other.kind \in {"same", "index"} =>
              (res.out.value <=>
                  /\ self.dtype = Denoted(res.other).dtype
                  /\ is_period_dtype(self) => self.freq = Denoted(res.other).freq
                  /\ self.i8 = Denoted(res.other).i8)
        /\ res.other.kind = "same" => res.out.value
        /\ res.other.kind = "object" => ~res.out.value

\* equal instants under two timezones
C12_Witness ==
    /\ res.op = "equals"
    /\ res.other.kind = "index"
    /\ Len(self.i8) = 2
    /\ res.other.idx.i8 = self.i8
    /\ ~is_period_dtype(self)
    /\ ~is_period_dtype(res.other.idx)
    /\ res.other.idx.dtype.tz # self.dtype.tz
    /\ res.out = BoolResult(FALSE)

(***************************************************************************)
(* Construction from scalars, and __getitem__.                             *)
(***************************************************************************)
\* tz is None
TzNone == "None"

\* Timestamp(value, tz=tz): the sentinel gives NaT
Timestamp_new(value, tz) ==
    IF value = iNaT THEN NaT ELSE [kind |-> "Timestamp", value |-> value, tz |-> tz]

\* scalar.tz; NaT has none
TzOf(scalar) == IF scalar.kind = "NaT" THEN TzNone ELSE scalar.tz

\* np.asarray(values, dtype='datetime64[ns]'): every scalar becomes its
\* physical (UTC) value, whatever timezone it carries, and NaT the sentinel
asarray(values) ==
    [k \in 1..Len(values) |-> IF values[k].kind = "NaT" THEN iNaT ELSE values[k].value]

\* to_array(values, tz)
to_array(values, tz) ==
    [kind |-> "column", col |-> DatetimeTZArray(asarray(values), DatetimeTZDtype("ns", tz))]

\* the dtype argument of _from_sequence: None, or a dtype
DtypeNone == [given |-> FALSE, dtype |-> DatetimeTZDtype("ns", TzNone)]

DtypeGiven(d) == [given |-> TRUE, dtype |-> d]

\* DatetimeTZArray._from_sequence(scalars, dtype); natHasTz tells whether
\* reading .tz of NaT yields None or raises AttributeError
from_sequence(scalars, dtype, natHasTz) ==
    IF dtype.given THEN to_array(scalars, dtype.dtype.tz)
    ELSE IF scalars = <<>> THEN Raise("IndexError")
    ELSE IF scalars[1].kind = "NaT" /\ ~natHasTz THEN Raise("AttributeError")
    ELSE to_array(scalars, DatetimeTZDtype("ns", TzOf(scalars[1])).tz)

\* items of __getitem__: an integer, a slice, a boolean mask
IntItem(i) == [kind |-> "int", i |-> i]

MaskItem(mask) == [kind |-> "mask", mask |-> mask]

\* a column returned by an operation: shares tells whether its buffer is
\* the receiver's memory, base[j] being the receiver's position behind the
\* result's position j - 1
NewColumn(col) == [kind |-> "column", col |-> col, shares |-> FALSE, base |-> <<>>]

ViewColumn(col, base) == [kind |-> "column", col |-> col, shares |-> TRUE, base |-> base]

\* __getitem__ that boxes a scalar without the dtype's timezone and
\* returns the columns of a slice or mask get with the timezone dropped
getitem_drops_tz(x, item) ==
    LET n == Len(x.i8)
        naive == DatetimeTZDtype("ns", TzNone)
    IN IF item.kind = "int"
       THEN IF item.i < 0 - n \/ item.i >= n THEN Raise("IndexError")
            ELSE [kind |-> "scalar",
                  value |-> Timestamp_new(At(x.i8, IF item.i < 0 THEN item.i + n ELSE item.i),
                                          TzNone)]
       ELSE IF item.kind = "slice"
       THEN LET pos == SlicePositions(item, n)
            IN ViewColumn(DatetimeTZArray([j \in 1..Len(pos) |-> At(x.i8, pos[j])], naive), pos)
       ELSE IF Len(item.mask) # n THEN Raise("IndexError")
            ELSE NewColumn(DatetimeTZArray(BoolIndex(x.i8, item.mask), naive))

\* DatetimeTZArray.__getitem__(item)
getitem(x, item) ==
    LET n == Len(x.i8)
    IN IF item.kind = "int"
       THEN IF item.i < 0 - n \/ item.i >= n THEN Raise("IndexError")
            ELSE [kind |-> "scalar",
                  value |-> Timestamp_new(At(x.i8, IF item.i < 0 THEN item.i + n ELSE item.i),
                                          x.dtype.tz)]
       ELSE IF item.kind = "slice"
       THEN LET pos == SlicePositions(item, n)
            IN ViewColumn(DatetimeTZArray([j \in 1..Len(pos) |-> At(x.i8, pos[j])], x.dtype), pos)
       ELSE IF Len(item.mask) # n THEN Raise("IndexError")
            ELSE NewColumn(DatetimeTZArray(BoolIndex(x.i8, item.mask), x.dtype))

\* the scalars a column is constructed from: NaT, two instants under two
\* timezones, and a naive one
Scalars ==
    {NaT, Timestamp_new(1, "US/Central"), Timestamp_new(-1, "pytz.UTC"), Timestamp_new(0, TzNone)}

ScalarSeqs == SeqsUpTo(Scalars, MaxLen)

\* items for a column of n elements: every position and one integer out of
\* range on either side, three slices, every mask of the right length
Items(n) ==
    {IntItem(i) : i \in (0 - n - 1)..n}
    \cup {Slice(0, n, TRUE, 1, FALSE), Slice(1, 3, TRUE, 1, FALSE), Slice(0, 3, TRUE, 2, TRUE)}
    \cup {MaskItem(m) : m \in [1..n -> BOOLEAN]}

ToArray ==
    /\ Idle
    /\ \E values \in ScalarSeqs :
          \E tz \in {TzNone, "pytz.UTC", "US/Central"} :
             res' = [op |-> "to_array", values |-> values, tz |-> tz,
                     out |-> to_array(values, tz)]
    /\ UNCHANGED self

FromSequence ==
    /\ Idle
    /\ \E scalars \in ScalarSeqs :
          \E dtype \in {DtypeNone, DtypeGiven(DatetimeTZDtype("ns", "US/Central"))} :
             \E natHasTz \in BOOLEAN :
                res' = [op |-> "from_sequence", values |-> scalars, dtype |-> dtype,
                        out |-> from_sequence(scalars, dtype, natHasTz)]
    /\ UNCHANGED self

\* __getitem__ on the column to_array has just returned
GetConstructed ==
    /\ res.op = "to_array"
    /\ \E item \in Items(Len(res.out.col.i8)) :
          res' = [op |-> "getitem", values |-> res.values, tz |-> res.tz,
                  col |-> res.out.col, item |-> item,
                  out |-> getitem(res.out.col, item)]
    /\ UNCHANGED self

\* construction from scalars, and get on the constructed column
InitConstruct ==
    /\ self = DatetimeTZArray(<<>>, DatetimeTZDtype("ns", "US/Central"))
    /\ res = NoRes

NextConstruct == ToArray \/ FromSequence \/ GetConstructed \/ Return

SpecConstruct == InitConstruct /\ [][NextConstruct]_vars

\* the timezones carried by the scalars of a sequence
TzsCarried(values) ==
    {TzOf(values[k]) : k \in {j \in 1..Len(values) : values[j].kind # "NaT"}} \ {TzNone}

\* the first non-missing scalar of a sequence that has one
FirstNonMissing(values) ==
    values[CHOOSE k \in 1..Len(values) :
              values[k].kind # "NaT" /\ \A j \in 1..(k - 1) : values[j].kind = "NaT"]

\* C13 (as claimed): construction from scalars whose timezones are not all
\* the same fails with a type error, and when dtype is omitted the result's
\* timezone is the timezone of the first non-missing scalar.
C13_Construction ==
    /\ (res.op \in {"to_array", "from_sequence"} /\ Cardinality(TzsCarried(res.values)) > 1) =>
          res.out = Raise("TypeError")
    /\ (/\ res.op = "from_sequence"
        /\ ~res.dtype.given
        /\ Cardinality(TzsCarried(res.values)) <= 1
        /\ \E k \in 1..Len(res.values) : res.values[k].kind # "NaT") =>
          /\ res.out.kind = "column"
          /\ res.out.col.dtype.tz = TzOf(FirstNonMissing(res.values))

\* the physical instant a scalar denotes
Instant(scalar) == IF scalar.kind = "NaT" THEN iNaT ELSE scalar.value

\* the positions of 0..n-1 an item selects
Selected(item, n) ==
    IF item.kind = "slice"
    THEN {q \in 0..(n - 1) :
            /\ q >= item.start
            /\ item.hasStop => q < item.stop
            /\ (q - item.start) % (IF item.hasStep THEN item.step ELSE 1) = 0}
    ELSE {q \in 0..(n - 1) : item.mask[q + 1]}

\* a set of integers as an increasing sequence
Ascending(S) ==
    CHOOSE sq \in [1..Cardinality(S) -> S] : \A a, b \in 1..Cardinality(S) : a < b => sq[a] < sq[b]

\* C14: get(construct(values, tz), i) at a valid integer position i
\* (negative ones counting from the end) is a Timestamp with the column
\* dtype's timezone tz and the instant of values[i], or NaT where values[i]
\* is missing; a slice or mask get returns a column of the same dtype
\* holding the instants of the selected elements in order.
C14_GetRoundTrip ==
    res.op = "getitem" =>
        LET n == Len(res.values)
        IN /\ (res.item.kind = "int" /\ res.item.i \in (0 - n)..(n - 1)) =>
                 LET v == res.values[(IF res.item.i < 0 THEN res.item.i + n ELSE res.item.i) + 1]
                 IN /\ res.out.kind = "scalar"
                    /\ res.out.value =
                          IF v.kind = "NaT" THEN NaT
                          ELSE [kind |-> "Timestamp", value |-> Instant(v), tz |-> res.tz]
           /\ res.item.kind \in {"slice", "mask"} =>
                 LET sel == Ascending(Selected(res.item, n))
                 IN /\ res.out.kind = "column"
                    /\ res.out.col.dtype = res.col.dtype
                    /\ res.col.dtype.tz = res.tz
                    /\ res.out.col.i8 = [j \in 1..Len(sel) |-> Instant(res.values[sel[j] + 1])]

\* a stepped slice of three constructed elements, the first one missing
C14_Witness ==
    /\ res.op = "getitem"
    /\ res.item = Slice(0, 3, TRUE, 2, TRUE)
    /\ Len(res.values) = 3
    /\ res.values[1] = NaT
    /\ res.values[3].kind = "Timestamp"
    /\ res.tz = "US/Central"
    /\ res.out.kind = "column"
    /\ res.out.col.i8 = <<iNaT, Instant(res.values[3])>>

(***************************************************************************)
(* Arithmetic dispatch: the adapter's operators and the index wrappers.    *)
(***************************************************************************)
NotImplemented == [kind |-> "NotImplemented"]

\* None, as returned by a function that falls off its end
PyNone == [kind |-> "None"]

\* what a column operator or method returns: a datetime array with a
\* timezone or a timedelta array
DatetimeResult(values, tz) == [kind |-> "array", cls |-> "datetime", values |-> values, tz |-> tz]

TimedeltaResult(values) == [kind |-> "array", cls |-> "timedelta", values |-> values, tz |-> TzNone]

\* operands: a temporal column, a duration, an object the column does not
\* know
Temporal(i8, tz, name) == [kind |-> "temporal", i8 |-> i8, tz |-> tz, name |-> name]

Duration(d, name) == [kind |-> "duration", d |-> d, name |-> name]

Unknown(name) == [kind |-> "unknown", name |-> name]

\* values shifted by d, the sentinel staying the sentinel; a value leaving
\* the integer range is an OverflowError
Shifted(i8, d) ==
    IF \E k \in 1..Len(i8) : i8[k] # iNaT /\ (i8[k] + d > i8max \/ i8[k] + d <= iNaT)
    THEN Raise("OverflowError")
    ELSE Ok([k \in 1..Len(i8) |-> IF i8[k] = iNaT THEN iNaT ELSE i8[k] + d])

\* elementwise a - b, missing where either is missing
Differences(a, b) ==
    IF \E k \in 1..Len(a) : a[k] # iNaT /\ b[k] # iNaT /\ (a[k] - b[k] > i8max \/ a[k] - b[k] <= iNaT)
    THEN Raise("OverflowError")
    ELSE Ok([k \in 1..Len(a) |-> IF a[k] = iNaT \/ b[k] = iNaT THEN iNaT ELSE a[k] - b[k]])

\* the column's __add__: temporal + temporal is a TypeError ("cannot add
\* DatetimeArray and DatetimeArray"), temporal + duration a temporal
\* column, anything else NotImplemented
array_add(x, other) ==
    IF other.kind = "temporal" THEN Raise("TypeError")
    ELSE IF other.kind = "duration"
    THEN LET v == Shifted(x.i8, other.d)
         IN IF v.kind = "raise" THEN v ELSE DatetimeResult(v.values, x.dtype.tz)
    ELSE NotImplemented

\* the column's __sub__
array_sub(x, other) ==
    IF other.kind = "temporal"
    THEN IF other.tz # x.dtype.tz THEN Raise("TypeError")
         ELSE LET v == Differences(x.i8, other.i8)
              IN IF v.kind = "raise" THEN v ELSE TimedeltaResult(v.values)
    ELSE IF other.kind = "duration"
    THEN LET v == Shifted(x.i8, 0 - other.d)
         IN IF v.kind = "raise" THEN v ELSE DatetimeResult(v.values, x.dtype.tz)
    ELSE NotImplemented

\* the column's __rsub__: other - self
array_rsub(x, other) ==
    IF other.kind = "temporal"
    THEN IF other.tz # x.dtype.tz THEN Raise("TypeError")
         ELSE LET v == Differences(other.i8, x.i8)
              IN IF v.kind = "raise" THEN v ELSE TimedeltaResult(v.values)
    ELSE IF other.kind = "duration" THEN Raise("TypeError")
    ELSE NotImplemented

\* Index(result): the Index subclass for the result's dtype, without name
Index_new(result) ==
    [kind |-> "index", cls |-> result.cls, values |-> result.values, tz |-> result.tz,
     name |-> NoName]

\* ops.get_op_result_name: the left operand's name, or the right one's if
\* only the right operand is named
get_op_result_name(x, other) == IF x.name # NoName THEN x.name ELSE other.name

\* wrap_arithmetic_op that boxes whatever the column returned
wrap_arithmetic_op_boxes_all(x, other, result) ==
    [kind |-> "index", cls |-> "object", values |-> <<>>, tz |-> TzNone,
     name |-> get_op_result_name(x, other)]

\* wrap_arithmetic_op(self, other, result)
wrap_arithmetic_op(x, other, result) ==
    IF result = NotImplemented THEN NotImplemented
    ELSE [Index_new(result) EXCEPT !.name = get_op_result_name(x, other)]

\* __add__ that answers NotImplemented where the column raised
add_swallows_error(x, other) ==
    LET result == array_add(x, other)
    IN IF result.kind = "raise" THEN NotImplemented
       ELSE wrap_arithmetic_op(x, other, result)

\* __add__ as installed by _add_datetimelike_methods: an exception of the
\* column's operator leaves the call
add(x, other) ==
    LET result == array_add(x, other)
    IN IF result.kind = "raise" THEN result
       ELSE wrap_arithmetic_op(x, other, result)

\* __radd__: alias for __add__
radd(x, other) == add(x, other)

\* __sub__
sub(x, other) ==
    LET result == array_sub(x, other)
    IN IF result.kind = "raise" THEN result
       ELSE wrap_arithmetic_op(x, other, result)

\* __rsub__
rsub(x, other) ==
    LET result == array_rsub(x, other)
    IN IF result.kind = "raise" THEN result
       ELSE wrap_arithmetic_op(x, other, result)

\* the method wrap_array_method(method, pin_name, box) returns, applied to
\* an adapter on which method returns result: without box the function
\* falls off its end
index_method(x, result, pin_name, box) ==
    IF box
    THEN IF pin_name THEN [Index_new(result) EXCEPT !.name = x.name]
         ELSE Index_new(result)
    ELSE PyNone

\* operands of the receiver's length
Operands(x) ==
    {Temporal(b, tz, nm) : b \in {x.i8, Reverse(x.i8)}, tz \in {x.dtype.tz, "pytz.UTC"},
                           nm \in {NoName, "b"}}
    \cup {Duration(d, nm) : d \in {1, -1}, nm \in {NoName, "b"}}
    \cup {Unknown(nm) : nm \in {NoName, "b"}}

\* what a wrapped column method may return
MethodResults(x) == {DatetimeResult(x.i8, x.dtype.tz), TimedeltaResult(x.i8)}

Add ==
    /\ Idle
    /\ \E other \in Operands(self) :
          res' = [op |-> "add", other |-> other, out |-> add(self, other)]
    /\ UNCHANGED self

Radd ==
    /\ Idle
    /\ \E other \in Operands(self) :
          res' = [op |-> "radd", other |-> other, out |-> radd(self, other)]
    /\ UNCHANGED self

Sub ==
    /\ Idle
    /\ \E other \in Operands(self) :
          res' = [op |-> "sub", other |-> other, out |-> sub(self, other)]
    /\ UNCHANGED self

Rsub ==
    /\ Idle
    /\ \E other \in Operands(self) :
          res' = [op |-> "rsub", other |-> other, out |-> rsub(self, other)]
    /\ UNCHANGED self

IndexMethod ==
    /\ Idle
    /\ \E result \in MethodResults(self) :
          \E pin_name, box \in BOOLEAN :
             res' = [op |-> "index_method", result |-> result, pin_name |-> pin_name,
                     box |-> box, out |-> index_method(self, result, pin_name, box)]
    /\ UNCHANGED self

InitArith ==
    /\ self \in {Named(Adapter(b, DatetimeTZDtype("ns", "US/Central"), FreqNone), nm) :
                    b \in SeqsUpTo(TakeValues, MaxLen), nm \in {NoName, "a"}}
    /\ res = NoRes

NextArith == Add \/ Radd \/ Sub \/ Rsub \/ IndexMethod \/ Return

SpecArith == InitArith /\ [][NextArith]_vars

\* C15: adapter + temporal column, through __add__ and through __radd__,
\* raises TypeError and yields no result column, whatever the timezones,
\* the names and the contents.
C15_AddTemporalRaises ==
    (res.op \in {"add", "radd"} /\ res.other.kind = "temporal") =>
        res.out = Raise("TypeError")

C15_Witness ==
    /\ res.op = "radd"
    /\ res.other.kind = "temporal"
    /\ res.other.tz = self.dtype.tz
    /\ Len(self.i8) = 2
    /\ res.out = Raise("TypeError")

\* what the column's operator returns for the last call
ColumnResult ==
    IF res.op \in {"add", "radd"} THEN array_add(self, res.other)
    ELSE IF res.op = "sub" THEN array_sub(self, res.other)
    ELSE array_rsub(self, res.other)

\* C16: when the column's __add__, __sub__ or __rsub__ returns
\* NotImplemented, the adapter's operator returns NotImplemented itself:
\* no Index, no name, no exception.
C16_NotImplementedPropagates ==
    (res.op \in {"add", "radd", "sub", "rsub"} /\ ColumnResult = NotImplemented) =>
        res.out = NotImplemented

C16_Witness ==
    /\ res.op = "rsub"
    /\ res.other = Unknown("b")
    /\ self.name = "a"
    /\ res.out = NotImplemented

\* C20 (as claimed): a method made by wrap_array_method returns the
\* wrapped method's result, boxed in an Index when box is True (named
\* self.name when pin_name is True) and as it is when box is False; it
\* never returns None.
C20_WrapArrayMethod ==
    res.op = "index_method" =>
        /\ res.box =>
              /\ res.out.kind = "index"
              /\ res.out.values = res.result.values
              /\ res.pin_name => res.out.name = self.name
        /\ ~res.box => res.out = res.result
        /\ res.out # PyNone

(***************************************************************************)
(* The cached hasnans of an adapter instance.                              *)
(***************************************************************************)
\* reading self.hasnans: computed tells whether the property's function
\* ran for this read
Hasnans ==
    /\ Idle
    /\ res' = [op |-> "hasnans", computed |-> self.cache.hasnans = {},
               out |-> BoolResult(cached_hasnans(self))]
    /\ self' = read_hasnans(self)

InitCache ==
    /\ self \in {Adapter(b, fl[1], fl[2]) : b \in SeqsUpTo(TakeValues, MaxLen), fl \in TakeFlavours}
    /\ res = NoRes

NextCache == Hasnans \/ Min \/ Max \/ Argmin \/ Argmax \/ SortValues \/ Repeat \/ Return

SpecCache == InitCache /\ [][NextCache]_vars

\* C17: the first read of hasnans on an instance computes and stores the
\* value, every later read returns the stored value without computing and
\* without changing the instance; no operation changes the instance's
\* buffer, and a stored value always tells whether the buffer holds the
\* sentinel.
C17_HasnansCached ==
    [][/\ self'.i8 = self.i8
       /\ self'.cache.hasnans # {} => self'.cache.hasnans = {hasnans(self'.i8)}
       /\ res'.op = "hasnans" =>
             /\ res'.out = BoolResult(hasnans(self.i8))
             /\ self'.cache.hasnans = {res'.out.value}
             /\ res'.computed <=> self.cache.hasnans = {}
             /\ ~res'.computed => self' = self]_vars

\* a read served from the cache that argmin filled
C17_Witness ==
    /\ res.op = "hasnans"
    /\ ~res.computed
    /\ Len(self.i8) = 3
    /\ At(self.i8, 1) = iNaT
    /\ At(self.i8, 0) # iNaT
    /\ res.out = BoolResult(TRUE)

(***************************************************************************)
(* Buffers shared between a column and the columns derived from it.        *)
(***************************************************************************)
\* DatetimeTZArray.copy(deep): a column over a copy of the buffer
copy(x) == NewColumn(DatetimeTZArray(x.i8, x.dtype))

\* the receiver's positions behind the buffer of a returned column: empty
\* when the buffer is new memory
SharedBase(out) == IF "shares" \in DOMAIN out /\ out.shares THEN out.base ELSE <<>>

\* a buffer after positions base[j] received the values buf[j]
WrittenThrough(i8, base, buf) ==
    [k \in 1..Len(i8) |->
        IF \E j \in 1..Len(base) : base[j] = k - 1
        THEN buf[CHOOSE j \in 1..Len(base) : base[j] = k - 1]
        ELSE i8[k]]

\* the value a caller stores into a returned buffer
WrittenValues == {0}

Copy ==
    /\ Idle
    /\ res' = [op |-> "copy", out |-> copy(self)]
    /\ UNCHANGED self

\* __getitem__ on the receiver
Getitem ==
    /\ Idle
    /\ \E item \in Items(Len(self.i8)) :
          res' = [op |-> "getitem_self", item |-> item, out |-> getitem(self, item)]
    /\ UNCHANGED self

\* the caller stores a value into the buffer of the column just returned:
\* the store lands in the memory behind that buffer, which is the
\* receiver's own when the buffer is a view
Write ==
    /\ res.op \in {"copy", "getitem_self", "array_take"}
    /\ res.out.kind = "column"
    /\ \E j \in 1..Len(res.out.col.i8) :
          \E v \in WrittenValues :
             LET buf == [res.out.col.i8 EXCEPT ![j] = v]
             IN /\ res' = [op |-> "write", from |-> res.op, shares |-> SharedBase(res.out) # <<>>,
                           out |-> [res.out EXCEPT !.col.i8 = buf]]
                /\ self' = [self EXCEPT !.i8 = WrittenThrough(self.i8, SharedBase(res.out), buf)]

InitFrame ==
    /\ self \in {Adapter(b, DatetimeTZDtype("ns", "US/Central"), FreqNone) :
                    b \in SeqsUpTo(TakeValues, MaxLen)}
    /\ res = NoRes

NextFrame == Copy \/ Getitem \/ ArrayTake \/ Argmin \/ Write \/ Return

SpecFrame == InitFrame /\ [][NextFrame]_vars

\* C18 (as claimed): no step changes the receiver: neither an operation
\* (copy, get, take, argmin) nor a store into the buffer of a column an
\* operation returned changes the receiver's buffer, length and dtype.
C18_InputsNeverChange ==
    [][/\ self'.i8 = self.i8
       /\ self'.dtype = self.dtype]_vars

(***************************************************************************)
(* The freq of a sorted adapter.                                           *)
(***************************************************************************)
\* the receiver's freq with the sign of the requested direction
DirectedFreq(freq, ascending) ==
    IF (freq > 0) = ascending THEN freq ELSE 0 - freq

\* C19 (as claimed): sort_values on a non-period adapter with a freq
\* returns a freq that is None or the receiver's freq with the sign of the
\* requested direction; on a period adapter it returns the receiver's
\* freq; and return_indexer=True returns the freq return_indexer=False
\* returns for the same receiver and direction.
C19_SortFreq ==
    res.op = "sort_values" =>
        /\ (~is_period_dtype(self) /\ self.freq # FreqNone) =>
              res.out.idx.freq \in {FreqNone, DirectedFreq(self.freq, res.ascending)}
        /\ is_period_dtype(self) => res.out.idx.freq = self.freq
        /\ res.return_indexer =>
              res.out.idx.freq = sort_values(self, FALSE, res.ascending, TRUE, <<>>).idx.freq

(***************************************************************************)
(* Every way a column comes into being.                                    *)
(***************************************************************************)
\* a timezone object, where a dtype is expected
TimezoneObject(tz) == [kind |-> "timezone", tz |-> tz]

\* the keyword arguments of _simple_new: with or without tz
NoKwargs == [hasTz |-> FALSE, tz |-> TzNone]

KwargsTz(tz) == [hasTz |-> TRUE, tz |-> tz]

\* DatetimeTZArray._simple_new(values, **kwargs)
array_simple_new(values, kwargs) ==
    to_array(values, IF kwargs.hasTz THEN kwargs.tz ELSE TzNone)

\* DatetimeTZArray.from_array(values, tz): to_array returns a column, and
\* the constructor is given that column as values and tz as dtype
from_array(values, tz) ==
    LET converted == to_array(values, TzNone)
    IN [kind |-> "column", col |-> DatetimeTZArrayOf(converted.col, TimezoneObject(tz))]

\* DatetimeTZArray.__len__: len(self._data)
column_len(c) == IF "i8" \in DOMAIN c THEN Len(c.i8) ELSE Len(c.data.i8)

ArraySimpleNew ==
    /\ Idle
    /\ \E values \in ScalarSeqs :
          \E kwargs \in {NoKwargs, KwargsTz("US/Central")} :
             res' = [op |-> "array_simple_new", values |-> values, kwargs |-> kwargs,
                     out |-> array_simple_new(values, kwargs)]
    /\ UNCHANGED self

FromArray ==
    /\ Idle
    /\ \E values \in ScalarSeqs :
          \E tz \in {"pytz.UTC", "US/Central"} :
             res' = [op |-> "from_array", values |-> values, tz |-> tz,
                     out |-> from_array(values, tz)]
    /\ UNCHANGED self

InitCreate ==
    /\ self \in {Adapter(b, DatetimeTZDtype("ns", "US/Central"), FreqNone) :
                    b \in SeqsUpTo(TakeValues, MaxLen)}
    /\ res = NoRes

NextCreate ==
    \/ ToArray
    \/ ArraySimpleNew
    \/ FromArray
    \/ FromSequence
    \/ FromFactorized
    \/ Copy
    \/ Getitem
    \/ ArrayTake
    \/ ConcatSameType
    \/ Return

SpecCreate == InitCreate /\ [][NextCreate]_vars

\* C21 (as claimed): every column a constructor or an operation of
\* DatetimeTZArray returns stores a flat buffer of physical values, has a
\* (unit ns, tz) dtype value as its dtype, has the length of its buffer,
\* and has freq None.
C21_ColumnInvariants ==
    (~Idle /\ res.out.kind = "column") =>
        /\ IsFlat(res.out.col)
        /\ res.out.col.dtype.kind = "datetime64"
        /\ res.out.col.dtype.unit = "ns"
        /\ column_len(res.out.col) = Len(res.out.col.i8)
        /\ res.out.col.freq = FreqNone

(***************************************************************************)
(* The two paths of sort_values.                                           *)
(***************************************************************************)
\* the elements return_indexer=False yields for the receiver and the
\* direction of the last call, under the given order of np.sort's kernel
SortedWithoutIndexer(natLast) == sort_values(self, FALSE, res.ascending, natLast, <<>>).idx.i8

JunkString == [kind |-> "str"]

OtherObject == [kind |-> "object"]

\* the argument of isin: an instance of the receiver's type, or a sequence
AsIndex(idx) == [kind |-> "index", idx |-> idx]

AsList(items) == [kind |-> "list", items |-> items]

Bools(values) == [kind |-> "bools", values |-> values]

\* type(self)(values) on a sequence: an adapter over the instants of the
\* scalars; a string that is no date is a ValueError, an object of another
\* type a TypeError
coerce(x, items) ==
    IF \E k \in 1..Len(items) : items[k].kind = "object" THEN Raise("TypeError")
    ELSE IF \E k \in 1..Len(items) : items[k].kind = "str" THEN Raise("ValueError")
    ELSE Ok(asarray(items))

\* algorithms.isin(comps, values): comps[i] occurs in values
algos_isin(comps, values) ==
    [k \in 1..Len(comps) |-> \E j \in 1..Len(values) : values[j] = comps[k]]

\* equality of two objects: NaT is NaT, two timezone-aware Timestamps are
\* equal when their instants are, as are two naive ones
ObjectsEqual(a, b) ==
    /\ a.kind = b.kind
    /\ a.kind = "Timestamp" => (a.value = b.value /\ (a.tz = TzNone) = (b.tz = TzNone))

\* self.astype(object).isin(values): membership of the boxed elements
object_isin(x, items) ==
    [k \in 1..Len(x.i8) |-> \E j \in 1..Len(items) : ObjectsEqual(items[j], box_func(x, x.i8[k]))]

\* isin that never reports a missing element as contained
isin_never_missing(x, values) ==
    LET found(i8) == [k \in 1..Len(x.i8) |-> x.i8[k] # iNaT /\ algos_isin(x.i8, i8)[k]]
    IN IF values.kind = "index" THEN Bools(found(values.idx.i8))
       ELSE LET coerced == coerce(x, values.items)
            IN IF coerced.kind = "raise"
               THEN IF coerced.exc = "ValueError" THEN Bools(object_isin(x, values.items))
                    ELSE coerced
               ELSE Bools(found(coerced.values))

\* DatetimeIndexOpsMixin.isin(values)
isin(x, values) ==
    IF values.kind = "index" THEN Bools(algos_isin(x.i8, values.idx.i8))
    ELSE LET coerced == coerce(x, values.items)
         IN IF coerced.kind = "raise"
            THEN IF coerced.exc = "ValueError" THEN Bools(object_isin(x, values.items))
                 ELSE coerced
            ELSE Bools(algos_isin(x.i8, coerced.values))

\* what isin is called with: adapters of the receiver's type under two
\* timezones, and sequences of up to two scalars or other objects
IsinValues(x) ==
    {AsIndex(Adapter(b, DatetimeTZDtype("ns", tz), FreqNone)) :
        b \in {x.i8, <<>>, <<iNaT, 1>>}, tz \in {"US/Central", "pytz.UTC"}}
    \cup {AsList(l) : l \in SeqsUpTo(Scalars \cup {JunkString, OtherObject}, 2)}

Isin ==
    /\ Idle
    /\ \E values \in IsinValues(self) :
          res' = [op |-> "isin", values |-> values, out |-> isin(self, values)]
    /\ UNCHANGED self

InitIsin ==
    /\ self \in {Adapter(b, DatetimeTZDtype("ns", "US/Central"), FreqNone) :
                    b \in SeqsUpTo({iNaT, -1, 1}, MaxLen)}
    /\ res = NoRes

NextIsin == Isin \/ Return

SpecIsin == InitIsin /\ [][NextIsin]_vars

\* the physical integers of an argument that is, or coerces to, an adapter
PhysicalOf(values) ==
    IF values.kind = "index" THEN {values.idx.i8[j] : j \in 1..Len(values.idx.i8)}
    ELSE {Instant(values.items[j]) : j \in 1..Len(values.items)}

Coercible(values) ==
    \/ values.kind = "index"
    \/ \A j \in 1..Len(values.items) : values.items[j].kind \in {"NaT", "Timestamp"}

\* C23: for an argument that is or coerces to an adapter, isin returns one
\* boolean per element of the receiver, true exactly when the element's
\* physical integer occurs among the argument's physical integers, so a
\* missing element is contained whenever the argument holds a missing
\* one; when coercion raises ValueError the result is the membership test
\* on the boxed elements, not an error.
C23_Isin ==
    res.op = "isin" =>
        /\ Coercible(res.values) =>
              /\ res.out.kind = "bools"
              /\ Len(res.out.values) = Len(self.i8)
              /\ \A k \in 1..Len(self.i8) :
                    res.out.values[k] <=> self.i8[k] \in PhysicalOf(res.values)
              /\ \A k \in 1..Len(self.i8) :
                    (self.i8[k] = iNaT /\ iNaT \in PhysicalOf(res.values)) => res.out.values[k]
        /\ (/\ res.values.kind = "list"
            /\ \E j \in 1..Len(res.values.items) : res.values.items[j].kind = "str"
            /\ \A j \in 1..Len(res.values.items) : res.values.items[j].kind # "object") =>
              /\ res.out.kind = "bools"
              /\ Len(res.out.values) = Len(self.i8)
              /\ \A k \in 1..Len(self.i8) :
                    res.out.values[k] <=>
                       \E j \in 1..Len(res.values.items) :
                          ObjectsEqual(res.values.items[j], box_func(self, self.i8[k]))

\* a missing element found in a sequence holding NaT, next to an instant
\* found under another timezone
C23_Witness ==
    /\ res.op = "isin"
    /\ self.i8 = <<iNaT, -1, 1>>
    /\ res.values = AsList(<<NaT, Timestamp_new(-1, "pytz.UTC")>>)
    /\ res.out = Bools(<<TRUE, TRUE, FALSE>>)

(***************************************************************************)
(* freq of an adapter: objects by identity                                 *)
(*                                                                         *)
(* Here self is the object graph: heap holds the column objects, and      *)
(* data[a] is the address in heap of the column that adapter a has as     *)
(* its _data.                                                              *)
(***************************************************************************)
MaxColumns == 2

MaxAdapters == 3

\* freq.setter that stores the value on every column
freq_fset_every_column(heap, data, value) ==
    [c \in DOMAIN heap |-> [heap[c] EXCEPT !.freq = value]]

\* DatelikeIndexMixin.freq (getter): self._data.freq
freq_fget(heap, data) == heap[data].freq

\* DatelikeIndexMixin.freq (setter): self._data.freq = value
freq_fset(heap, data, value) == [heap EXCEPT ![data].freq = value]

\* DatetimeTZArray.__init__: a new column object, its freq None
ColumnInit ==
    /\ Idle
    /\ Len(self.heap) < MaxColumns
    /\ self' = [self EXCEPT !.heap =
                   Append(@, DatetimeTZArray(<<1, iNaT>>, DatetimeTZDtype("ns", "US/Central")))]
    /\ res' = [op |-> "__init__", out |-> Len(self.heap) + 1]

\* a further adapter whose _data is an existing column object
AdapterWraps ==
    /\ Idle
    /\ Len(self.data) < MaxAdapters
    /\ \E c \in DOMAIN self.heap :
          /\ self' = [self EXCEPT !.data = Append(@, c)]
          /\ res' = [op |-> "wrap", out |-> Len(self.data) + 1]

\* adapter.freq
FreqGet ==
    /\ Idle
    /\ \E a \in DOMAIN self.data :
          res' = [op |-> "freq", adapter |-> a, out |-> freq_fget(self.heap, self.data[a])]
    /\ UNCHANGED self

\* adapter.freq = value
FreqSet ==
    /\ Idle
    /\ \E a \in DOMAIN self.data, value \in Freqs \cup {FreqNone} :
          /\ self' = [self EXCEPT !.heap = freq_fset(@, self.data[a], value)]
          /\ res' = [op |-> "freq.setter", adapter |-> a, value |-> value,
                     before |-> self.heap]

InitFreqAttr ==
    /\ self = [heap |-> <<DatetimeTZArray(<<1, iNaT>>, DatetimeTZDtype("ns", "US/Central"))>>,
               data |-> <<1>>]
    /\ res = NoRes

NextFreqAttr == ColumnInit \/ AdapterWraps \/ FreqGet \/ FreqSet \/ Return

SpecFreqAttr == InitFreqAttr /\ [][NextFreqAttr]_vars

\* C24: adapter.freq is the freq stored on the column the adapter wraps;
\* after adapter.freq = v the wrapped column's freq is v, every adapter
\* wrapping the same column object reads v, and every adapter wrapping
\* another column object reads what it read before.
C24_FreqOnColumn ==
    /\ res.op = "freq" => res.out = self.heap[self.data[res.adapter]].freq
    /\ res.op = "freq.setter" =>
          /\ self.heap[self.data[res.adapter]].freq = res.value
          /\ \A b \in DOMAIN self.data :
                freq_fget(self.heap, self.data[b]) =
                   IF self.data[b] = self.data[res.adapter] THEN res.value
                   ELSE freq_fget(res.before, self.data[b])

\* two adapters share a column and a third wraps another one whose freq
\* differs; a freq is assigned through the first
C24_Witness ==
    /\ res.op = "freq.setter"
    /\ res.adapter = 1
    /\ res.value = 1
    /\ \E b, d \in DOMAIN self.data :
          /\ b # 1
          /\ self.data[b] = self.data[1]
          /\ self.data[d] # self.data[1]
          /\ self.heap[self.data[d]].freq = -2
          /\ res.before[self.data[1]].freq = FreqNone

====
